---- MODULE Spec2Model ----
(***************************************************************************)
(* Model of app/script_runner.py: the registry of script sessions, the     *)
(* public operations on it, and the worker thread (_run_script) that       *)
(* drives one child process per run.                                       *)
(*                                                                         *)
(* Every `with lock:' block of the source is one atomic step; the gaps     *)
(* between two blocks of one function, and the unlocked statements of the  *)
(* worker, are separate steps, so that other threads interleave exactly    *)
(* where the source lets them.                                             *)
(***************************************************************************)
EXTENDS Integers, Sequences, FiniteSets, TLC

\* ---------------------------------------------------------------- bounds
MaxSessions == 2      \* sessions ever created
MaxRuns     == 2      \* worker threads ever started
MaxChunks   == 1      \* chunks of output one child process writes
MaxOps      == 3      \* public calls made in one behaviour
MaxTicks    == 4      \* clock advances in one behaviour (SpecTimed)
TimedOps    == 4      \* public calls in one behaviour of SpecTimed
TimedRuns   == 1      \* worker threads in one behaviour of SpecTimed
RestartOps  == 3      \* public calls in one behaviour of SpecRestart
RestartTicks == 3     \* clock advances in one behaviour of SpecRestart
NumCallers  == 2      \* request threads
DrainOps    == 5      \* public calls in one behaviour of SpecDrain
SweepOps    == 3      \* public calls in one behaviour of SpecSweep, SpecSweepAlone
SweepTicks  == 3      \* clock advances in one behaviour of SpecSweep, SpecSweepAlone
ApiOps      == 3      \* public calls in one behaviour of SpecApi
ActivityOps == 4      \* public calls in one behaviour of SpecActivity
ActivityTicks == 3    \* clock advances in one behaviour of SpecActivity
NumThreads  == 3      \* threads that contend for the locks in SpecLocks
LockOps     == 3      \* public calls in one behaviour of SpecLocks
LockTicks   == 1      \* clock advances in one behaviour of SpecLocks
RouteOps    == 4      \* runner calls in one behaviour of SpecRoutes
RaceOps     == 4      \* public calls in one behaviour of SpecRace
StreamOps   == 2      \* runner calls in one behaviour of SpecStream

\* ------------------------------------------------------ program constants
TIMEOUT_SECONDS == 300
TickStep        == 150   \* seconds the modelled clock advances per tick
None            == -1    \* Python's None in an Optional[int] field

SessionIds == 1..MaxSessions
UnknownId  == MaxSessions + 1       \* an id create_session never returns
OneSession == {1}                   \* the ids in play when one session is created
Ids        == SessionIds \cup {UnknownId}
Runs       == 1..MaxRuns
Callers    == 1..NumCallers
Threads    == 1..NumThreads
ExitCodes  == {0, 1}
ScriptPaths == {"a.py", "b.py"}     \* paths a caller hands to create_session
NoPath      == "none"               \* script_path of a session not yet constructed

VARIABLES
    now,            \* time.time()
    _sessions,      \* keys of the registry dict
    created,        \* number of ScriptSession objects constructed so far
    script_path,    \* session.script_path
    process,        \* session.process: the run whose child it is, or None
    thread,         \* session.thread: the latest worker started, or None
    output_queue,   \* session.output_queue
    is_running,     \* session.is_running
    exit_code,      \* session.exit_code
    last_activity,  \* session.last_activity
    proc,           \* the child process spawned by each run
    thr,            \* each worker thread: its session, position and locals
    call,           \* each request thread: the call it is in, and its result
    opsLeft,        \* public calls still allowed
    runsLeft,       \* worker threads still allowed
    ticksLeft,      \* clock advances still allowed
    appended,       \* history: the messages each run has appended
    destroyed,      \* history: per id, the lifecycle state each destroy_session that
                    \* returned True found the session in
    last_event,     \* history: per session, when it last started, got input, got a keepalive
    history,        \* history: what get_output has returned, what each sweep scanned,
                    \* the path each session was created with, whether a terminal
                    \* message was appended since the session's last start, whether
                    \* that start found an earlier run that had ended
    req,            \* routes: each request thread's HTTP request and its response
    csrf_token,     \* routes: session["csrf_token"] of the caller's web session
    _sessions_lock, \* the thread that holds the registry lock, or None
    lock,           \* per session, the thread that holds session.lock, or None
    held            \* each thread's position in the locking of its operation

vars == << now, _sessions, created, script_path, process, thread, output_queue, is_running,
           exit_code, last_activity, proc, thr, call, opsLeft, runsLeft,
           ticksLeft, appended, destroyed, last_event, history, req, csrf_token,
           _sessions_lock, lock, held >>

routevars == << req, csrf_token >>

lockvars == << _sessions_lock, lock, held >>

budget == << opsLeft, runsLeft, ticksLeft >>

sessvars == << process, thread, output_queue, is_running, exit_code, last_activity >>

\* ------------------------------------------------------------- messages
OutputMsg(t) == [type |-> "output", text |-> t]
TimeoutMsg   == [type |-> "timeout", text |-> 0]
ErrorMsg     == [type |-> "error", text |-> 0]
ExitMsg(c)   == [type |-> "exit", code |-> IF c # None THEN c ELSE 0]

Terminal == {"exit", "timeout", "error"}

NoProc  == [state |-> "none", buf |-> << >>, written |-> 0, input |-> 0,
            exitstatus |-> None, closed |-> FALSE]
NoThr   == [sess |-> None, pc |-> "none", output_text |-> None, exit_code |-> None,
            ended |-> "none"]   \* ended: history, the path that ended the loop
NoEvent == [start |-> None, input |-> None, keepalive |-> None]
NoSweep == [due |-> {}, fresh |-> {}]   \* history of one sweep's scan
NoToken == "unset"   \* no csrf_token key in the web session
NoRequest == [route |-> "none", pc |-> "none", token |-> "", path |-> NoPath, sid |-> None,
              batch |-> << >>, events |-> << >>, status |-> 0]
Free    == [op |-> "none", pc |-> "free", sid |-> None, now |-> 0, max_age |-> 0,
            todo |-> << >>, to_remove |-> << >>]
Idle    == [pc |-> "idle", op |-> "none", sid |-> None, ret |-> FALSE, to_remove |-> << >>, saw |-> "none"]

InitWith(ops, runs, ticks) ==
    /\ opsLeft = ops
    /\ runsLeft = runs
    /\ ticksLeft = ticks
    /\ now = 0
    /\ _sessions = {}
    /\ created = 0
    /\ script_path = [s \in SessionIds |-> NoPath]
    /\ process = [s \in SessionIds |-> None]
    /\ thread = [s \in SessionIds |-> None]
    /\ output_queue = [s \in SessionIds |-> << >>]
    /\ is_running = [s \in SessionIds |-> FALSE]
    /\ exit_code = [s \in SessionIds |-> None]
    /\ last_activity = [s \in SessionIds |-> 0]
    /\ proc = [r \in Runs |-> NoProc]
    /\ thr = [r \in Runs |-> NoThr]
    /\ call = [c \in Callers |-> Idle]
    /\ appended = [r \in Runs |-> << >>]
    /\ destroyed = [s \in Ids |-> << >>]
    /\ last_event = [s \in SessionIds |-> NoEvent]
    /\ history = [drained |-> [s \in SessionIds |-> << >>],
                  swept   |-> [c \in Callers |-> NoSweep],
                  given   |-> [s \in SessionIds |-> NoPath],
                  terminal |-> [s \in SessionIds |-> FALSE],
                  restart |-> [s \in SessionIds |-> FALSE]]
    /\ req = [c \in Callers |-> NoRequest]
    /\ csrf_token = NoToken
    /\ _sessions_lock = None
    /\ lock = [s \in SessionIds |-> None]
    /\ held = [t \in Threads |-> Free]

Init == InitWith(MaxOps, MaxRuns, 0)

\* The clock: time.time() is read where the source reads it; between two
\* steps it may have advanced.
Tick ==
    /\ ticksLeft > 0
    /\ ticksLeft' = ticksLeft - 1
    /\ now' = now + TickStep
    /\ UNCHANGED << _sessions, created, script_path, sessvars, proc, thr, call, opsLeft,
                    runsLeft, appended, destroyed, history, last_event >>
    /\ UNCHANGED << routevars, lockvars >>

\* ------------------------------------------------------- request threads
CanCall(c) == call[c].pc = "idle" /\ opsLeft > 0

Returned(c, op, sid, val) ==
    [pc |-> "returned", op |-> op, sid |-> sid, ret |-> val, to_remove |-> << >>, saw |-> "none"]

In(c, op, pc, sid) ==
    [pc |-> pc, op |-> op, sid |-> sid, ret |-> FALSE, to_remove |-> << >>, saw |-> "none"]

\* A lookup that finds every id create_session can hand out.
get_session_any(sid) == IF sid \in SessionIds THEN sid ELSE None

\* get_session: the registry lookup under _sessions_lock.
get_session(sid) == IF sid \in _sessions THEN sid ELSE None

\* A constructor that ignores its script_path argument.
StoredDefault(path) == "a.py"

\* ScriptSession(session_id=session_id, script_path=script_path)
StoredPath(path) == path

create_session_with(c, path) ==
    /\ CanCall(c)
    /\ created < MaxSessions
    /\ LET sid == created + 1 IN
        /\ created' = sid
        /\ script_path' = [script_path EXCEPT ![sid] = StoredPath(path)]
        /\ history' = [history EXCEPT !.given[sid] = path]
        /\ _sessions' = _sessions \cup {sid}
        /\ process' = [process EXCEPT ![sid] = None]
        /\ thread' = [thread EXCEPT ![sid] = None]
        /\ output_queue' = [output_queue EXCEPT ![sid] = << >>]
        /\ is_running' = [is_running EXCEPT ![sid] = FALSE]
        /\ exit_code' = [exit_code EXCEPT ![sid] = None]
        /\ last_activity' = [last_activity EXCEPT ![sid] = now]
        /\ last_event' = [last_event EXCEPT ![sid] = NoEvent]
        /\ call' = [call EXCEPT ![c] = Returned(c, "create_session", sid, sid)]
    /\ opsLeft' = opsLeft - 1
    /\ UNCHANGED << runsLeft, ticksLeft >>
    /\ UNCHANGED << now, proc, thr, appended, destroyed >>
    /\ UNCHANGED << routevars, lockvars >>

\* create_session called with one fixed path.
create_session(c) == create_session_with(c, "a.py")

\* The next unused worker slot (threads are numbered in creation order).
NewRun == CHOOSE r \in Runs : thr[r].pc = "none" /\ \A q \in Runs : q < r => thr[q].pc # "none"

Alive(r) == proc[r].state = "alive"

\* process.isalive() on a session's process field (None-safe, as the source's
\* `session.process and session.process.isalive()').
ProcessAlive(s) == process[s] # None /\ Alive(process[s])

\* process.terminate(force=True): the child is killed by a signal, so it has
\* no exit status.
Terminate(p) == [p EXCEPT !.state = "dead", !.exitstatus = None]

start_execution_get(c, sid) ==
    /\ CanCall(c)
    /\ opsLeft' = opsLeft - 1
    /\ UNCHANGED << runsLeft, ticksLeft >>
    /\ call' = [call EXCEPT ![c] =
                  IF get_session(sid) = None
                  THEN Returned(c, "start_execution", sid, FALSE)
                  ELSE In(c, "start_execution", "locked", sid)]
    /\ UNCHANGED << now, _sessions, created, script_path, sessvars, proc, thr, appended,
                    destroyed, history, last_event >>
    /\ UNCHANGED << routevars, lockvars >>

\* The session has had a run and that run is over: its worker has left the
\* loop or appended its terminal message, or the worker had set is_running
\* and its child is dead.
PreviousRunEnded(s) ==
    /\ thread[s] # None
    /\ \/ thr[thread[s]].pc \in {"finally", "finally_lock", "done"}
       \/ history.terminal[s]
       \/ /\ thr[thread[s]].pc \in {"check", "read", "append", "close", "eof"}
          /\ proc[thread[s]].state = "dead"

\* The `with session.lock:' block of start_execution.
\* A start_execution that sets is_running itself, before any child exists.
start_execution_marking(c) ==
    /\ call[c].pc = "locked" /\ call[c].op = "start_execution"
    /\ LET s == call[c].sid IN
        IF is_running[s]
        THEN /\ call' = [call EXCEPT ![c] = Returned(c, "start_execution", s, FALSE)]
             /\ UNCHANGED << sessvars, thr, last_event, runsLeft, history >>
        ELSE /\ runsLeft > 0
             /\ runsLeft' = runsLeft - 1
             /\ output_queue' = [output_queue EXCEPT ![s] = << >>]
             /\ exit_code' = [exit_code EXCEPT ![s] = None]
             /\ last_activity' = [last_activity EXCEPT ![s] = now]
             /\ is_running' = [is_running EXCEPT ![s] = TRUE]
             /\ thread' = [thread EXCEPT ![s] = NewRun]
             /\ thr' = [thr EXCEPT ![NewRun] = [NoThr EXCEPT !.sess = s, !.pc = "spawn"]]
             /\ last_event' = [last_event EXCEPT ![s].start = now]
             /\ history' = [history EXCEPT !.terminal[s] = FALSE,
                                                !.restart[s] = PreviousRunEnded(s)]
             /\ call' = [call EXCEPT ![c] = Returned(c, "start_execution", s, TRUE)]
             /\ UNCHANGED process
    /\ UNCHANGED << now, _sessions, created, script_path, proc, opsLeft, ticksLeft, appended,
                    destroyed >>
    /\ UNCHANGED << routevars, lockvars >>

\* A start_execution that empties the queue before it tests is_running.
start_execution_clearing(c) ==
    /\ call[c].pc = "locked" /\ call[c].op = "start_execution"
    /\ LET s == call[c].sid IN
        /\ output_queue' = [output_queue EXCEPT ![s] = << >>]
        /\ IF is_running[s]
           THEN /\ call' = [call EXCEPT ![c] = Returned(c, "start_execution", s, FALSE)]
                /\ UNCHANGED << exit_code, last_activity, thread, thr, last_event,
                                runsLeft, history >>
           ELSE /\ runsLeft > 0
                /\ runsLeft' = runsLeft - 1
                /\ exit_code' = [exit_code EXCEPT ![s] = None]
                /\ last_activity' = [last_activity EXCEPT ![s] = now]
                /\ thread' = [thread EXCEPT ![s] = NewRun]
                /\ thr' = [thr EXCEPT ![NewRun] = [NoThr EXCEPT !.sess = s, !.pc = "spawn"]]
                /\ last_event' = [last_event EXCEPT ![s].start = now]
                /\ history' = [history EXCEPT !.terminal[s] = FALSE,
                                                !.restart[s] = PreviousRunEnded(s)]
                /\ call' = [call EXCEPT ![c] = Returned(c, "start_execution", s, TRUE)]
    /\ UNCHANGED << now, _sessions, created, script_path, process, is_running, proc,
                    opsLeft, ticksLeft, appended, destroyed, routevars, lockvars >>

start_execution_locked(c) ==
    /\ call[c].pc = "locked" /\ call[c].op = "start_execution"
    /\ LET s == call[c].sid IN
        IF is_running[s]
        THEN /\ call' = [call EXCEPT ![c] = Returned(c, "start_execution", s, FALSE)]
             /\ UNCHANGED << sessvars, thr, last_event, runsLeft, history >>
        ELSE /\ runsLeft > 0
             /\ runsLeft' = runsLeft - 1
             /\ output_queue' = [output_queue EXCEPT ![s] = << >>]
             /\ exit_code' = [exit_code EXCEPT ![s] = None]
             /\ last_activity' = [last_activity EXCEPT ![s] = now]
             /\ thread' = [thread EXCEPT ![s] = NewRun]
             /\ thr' = [thr EXCEPT ![NewRun] = [NoThr EXCEPT !.sess = s, !.pc = "spawn"]]
             /\ last_event' = [last_event EXCEPT ![s].start = now]
             /\ history' = [history EXCEPT !.terminal[s] = FALSE,
                                                !.restart[s] = PreviousRunEnded(s)]
             /\ call' = [call EXCEPT ![c] = Returned(c, "start_execution", s, TRUE)]
             /\ UNCHANGED << process, is_running >>
    /\ UNCHANGED << now, _sessions, created, script_path, proc, opsLeft, ticksLeft, appended,
                    destroyed >>
    /\ UNCHANGED << routevars, lockvars >>

send_input_get(c, sid) ==
    /\ CanCall(c)
    /\ opsLeft' = opsLeft - 1
    /\ UNCHANGED << runsLeft, ticksLeft >>
    /\ call' = [call EXCEPT ![c] =
                  IF get_session(sid) = None
                  THEN Returned(c, "send_input", sid, FALSE)
                  ELSE In(c, "send_input", "locked", sid)]
    /\ UNCHANGED << now, _sessions, created, script_path, sessvars, proc, thr, appended,
                    destroyed, history, last_event >>
    /\ UNCHANGED << routevars, lockvars >>

\* process.sendline(text): the write reaches a live child; on a child that has
\* ended, or a closed handle, the write raises (OSError).
SendlineOk(s) == Alive(process[s]) /\ ~proc[process[s]].closed

\* if not session.is_running or not session.process
NotRunning(s) == ~is_running[s] \/ process[s] = None

\* The `with session.lock:' block of send_input.
send_input_locked(c) ==
    /\ call[c].pc = "locked" /\ call[c].op = "send_input"
    /\ LET s == call[c].sid IN
        IF NotRunning(s)
        THEN /\ call' = [call EXCEPT ![c] = Returned(c, "send_input", s, FALSE)]
             /\ UNCHANGED << last_activity, last_event, proc >>
        ELSE IF SendlineOk(s)
        THEN /\ proc' = [proc EXCEPT ![process[s]].input = @ + 1]
             /\ last_activity' = [last_activity EXCEPT ![s] = now]
             /\ last_event' = [last_event EXCEPT ![s].input = now]
             /\ call' = [call EXCEPT ![c] = Returned(c, "send_input", s, TRUE)]
        ELSE /\ call' = [call EXCEPT ![c] = Returned(c, "send_input", s, FALSE)]
             /\ UNCHANGED << last_activity, last_event, proc >>
    /\ UNCHANGED << now, _sessions, created, script_path, process, thread, output_queue,
                    is_running, exit_code, thr, budget, appended, destroyed, history >>
    /\ UNCHANGED << routevars, lockvars >>

update_activity_get(c, sid) ==
    /\ CanCall(c)
    /\ opsLeft' = opsLeft - 1
    /\ UNCHANGED << runsLeft, ticksLeft >>
    /\ call' = [call EXCEPT ![c] =
                  IF get_session(sid) = None
                  THEN Returned(c, "update_activity", sid, FALSE)
                  ELSE In(c, "update_activity", "locked", sid)]
    /\ UNCHANGED << now, _sessions, created, script_path, sessvars, proc, thr, appended,
                    destroyed, history, last_event >>
    /\ UNCHANGED << routevars, lockvars >>

\* update_activity that resets the time stamp.
KeepaliveEpoch(s) == 0

\* update_activity that takes the lock but stores no new time.
KeepaliveStale(s) == last_activity[s]

\* The value update_activity stores in last_activity.
KeepaliveStamp(s) == now

\* update_activity that also empties the session's queue.
update_activity_clearing(c) ==
    /\ call[c].pc = "locked" /\ call[c].op = "update_activity"
    /\ LET s == call[c].sid IN
        /\ last_activity' = [last_activity EXCEPT ![s] = now]
        /\ output_queue' = [output_queue EXCEPT ![s] = << >>]
        /\ last_event' = [last_event EXCEPT ![s].keepalive = now]
        /\ call' = [call EXCEPT ![c] = Returned(c, "update_activity", s, TRUE)]
    /\ UNCHANGED << now, _sessions, created, script_path, process, thread,
                    is_running, exit_code, proc, thr, budget, appended, destroyed, history >>
    /\ UNCHANGED << routevars, lockvars >>

update_activity_locked(c) ==
    /\ call[c].pc = "locked" /\ call[c].op = "update_activity"
    /\ LET s == call[c].sid IN
        /\ last_activity' = [last_activity EXCEPT ![s] = KeepaliveStamp(s)]
        /\ last_event' = [last_event EXCEPT ![s].keepalive = now]
        /\ call' = [call EXCEPT ![c] = Returned(c, "update_activity", s, TRUE)]
    /\ UNCHANGED << now, _sessions, created, script_path, process, thread, output_queue,
                    is_running, exit_code, proc, thr, budget, appended, destroyed, history >>
    /\ UNCHANGED << routevars, lockvars >>

get_output_get(c, sid) ==
    /\ CanCall(c)
    /\ opsLeft' = opsLeft - 1
    /\ UNCHANGED << runsLeft, ticksLeft >>
    /\ call' = [call EXCEPT ![c] =
                  IF get_session(sid) = None
                  THEN Returned(c, "get_output", sid, << >>)
                  ELSE In(c, "get_output", "locked", sid)]
    /\ UNCHANGED << now, _sessions, created, script_path, sessvars, proc, thr, appended,
                    destroyed, history, last_event >>
    /\ UNCHANGED << routevars, lockvars >>

\* The number of messages ever appended to session s's queue.
RECURSIVE SumLen(_)
SumLen(R) ==
    IF R = {} THEN 0
    ELSE LET r == CHOOSE x \in R : TRUE IN Len(appended[r]) + SumLen(R \ {r})

AppendedTo(s) == SumLen({r \in Runs : thr[r].sess = s})

\* The queue's messages, each with its position among all the messages ever
\* appended to the session (the queue always holds the latest of them).
Numbered(s) ==
    [i \in 1..Len(output_queue[s]) |->
        [nr |-> AppendedTo(s) - Len(output_queue[s]) + i, msg |-> output_queue[s][i]]]

\* A sweep that collects every session that is not running, whatever its age.
StaleAny(s, max_age) == ~is_running[s]

\* get_output that returns the queue without clearing it.
QueueKept(s) == output_queue[s]

\* session.output_queue.clear()
QueueCleared(s) == << >>

\* The `with session.lock:' block of get_output: copy, clear, return the copy.
get_output_locked(c) ==
    /\ call[c].pc = "locked" /\ call[c].op = "get_output"
    /\ LET s == call[c].sid IN
        /\ call' = [call EXCEPT ![c] = Returned(c, "get_output", s, output_queue[s])]
        /\ output_queue' = [output_queue EXCEPT ![s] = QueueCleared(s)]
        /\ history' = [history EXCEPT !.drained[s] = @ \o Numbered(s)]
    /\ UNCHANGED << now, _sessions, created, script_path, process, thread, is_running,
                    exit_code, last_activity, proc, thr, budget, appended,
                    destroyed, last_event >>
    /\ UNCHANGED << routevars, lockvars >>

is_running_get(c, sid) ==
    /\ CanCall(c)
    /\ opsLeft' = opsLeft - 1
    /\ UNCHANGED << runsLeft, ticksLeft >>
    /\ call' = [call EXCEPT ![c] =
                  IF get_session(sid) = None
                  THEN Returned(c, "is_running", sid, FALSE)
                  ELSE In(c, "is_running", "locked", sid)]
    /\ UNCHANGED << now, _sessions, created, script_path, sessvars, proc, thr, appended,
                    destroyed, history, last_event >>
    /\ UNCHANGED << routevars, lockvars >>

is_running_locked(c) ==
    /\ call[c].pc = "locked" /\ call[c].op = "is_running"
    /\ call' = [call EXCEPT ![c] =
                  Returned(c, "is_running", call[c].sid, is_running[call[c].sid])]
    /\ UNCHANGED << now, _sessions, created, script_path, sessvars, proc, thr, budget,
                    appended, destroyed, history, last_event >>
    /\ UNCHANGED << routevars, lockvars >>

\* ---------------------------------------------------------- destroy_session
\* destroy_session is called by a request thread and, once per id it
\* collected, by cleanup_old_sessions; to_remove is the sweep's list of
\* ids still to destroy (empty for a direct call).
destroy_session_get(c, sid) ==
    /\ CanCall(c)
    /\ opsLeft' = opsLeft - 1
    /\ UNCHANGED << runsLeft, ticksLeft >>
    /\ call' = [call EXCEPT ![c] =
                  IF get_session(sid) = None
                  THEN Returned(c, "destroy_session", sid, FALSE)
                  ELSE In(c, "destroy_session", "locked", sid)]
    /\ UNCHANGED << now, _sessions, created, script_path, sessvars, proc, thr, appended,
                    destroyed, history, last_event >>
    /\ UNCHANGED << routevars, lockvars >>

\* The lifecycle state of a session: that of its latest run.
LifecycleState(s) ==
    IF thread[s] = None THEN "PENDING"
    ELSE CASE thr[thread[s]].ended = "none"    -> "RUNNING"
           [] thr[thread[s]].ended = "exit"    -> "EXITED"
           [] thr[thread[s]].ended = "timeout" -> "TIMED_OUT"
           [] OTHER                            -> "ERRORED"

IsDestroying(c) == call[c].op \in {"destroy_session", "cleanup_old_sessions"}

\* The `with session.lock:' block of destroy_session.
destroy_session_locked(c) ==
    /\ call[c].pc = "locked" /\ IsDestroying(c)
    /\ LET s == call[c].sid IN
        /\ proc' = IF ProcessAlive(s)
                   THEN [proc EXCEPT ![process[s]] = Terminate(@)]
                   ELSE proc
        /\ is_running' = [is_running EXCEPT ![s] = FALSE]
    /\ call' = [call EXCEPT ![c].pc = "pop", ![c].saw = LifecycleState(call[c].sid)]
    /\ UNCHANGED << now, _sessions, created, script_path, process, thread, output_queue,
                    exit_code, last_activity, thr, budget, appended, destroyed, history,
                    last_event >>
    /\ UNCHANGED << routevars, lockvars >>

\* destroy_session that leaves the entry in the registry.
RegistryPopNothing(sid) == _sessions

\* _sessions.pop(session_id, None)
RegistryPop(sid) == _sessions \ {sid}

\* The `with _sessions_lock:' block of destroy_session, and its return.
destroy_session_pop(c) ==
    /\ call[c].pc = "pop" /\ IsDestroying(c)
    /\ _sessions' = RegistryPop(call[c].sid)
    /\ destroyed' = [destroyed EXCEPT ![call[c].sid] = Append(@, call[c].saw)]
    /\ call' = [call EXCEPT ![c] =
                  IF call[c].op = "destroy_session"
                  THEN Returned(c, "destroy_session", call[c].sid, TRUE)
                  ELSE [call[c] EXCEPT !.pc = "sweep", !.to_remove = Tail(@)]]
    /\ UNCHANGED << now, created, script_path, sessvars, proc, thr, budget,
                    appended, last_event, history >>
    /\ UNCHANGED << routevars, lockvars >>

\* ------------------------------------------------------ cleanup_old_sessions
MaxAges == {0, TIMEOUT_SECONDS}

\* The ids of a set in ascending order (the registry dict iterates in
\* insertion order, and ids are handed out in ascending order).
RECURSIVE Ascending(_)
Ascending(S) ==
    IF S = {} THEN << >>
    ELSE LET m == CHOOSE x \in S : \A y \in S : x <= y
         IN << m >> \o Ascending(S \ {m})

Stale(s, max_age) == now - last_activity[s] > max_age /\ ~is_running[s]

\* The scan under _sessions_lock, which takes each session's lock in turn.
cleanup_old_sessions_scan(c, max_age) ==
    /\ CanCall(c)
    /\ opsLeft' = opsLeft - 1
    /\ UNCHANGED << runsLeft, ticksLeft >>
    /\ call' = [call EXCEPT ![c] =
                  [pc |-> "sweep", op |-> "cleanup_old_sessions", sid |-> None,
                   ret |-> FALSE, saw |-> "none",
                   to_remove |-> Ascending({s \in _sessions : Stale(s, max_age)})]]
    /\ history' = [history EXCEPT !.swept[c] =
                      [due   |-> {s \in _sessions : ~is_running[s]
                                                    /\ now - last_activity[s] > max_age},
                       fresh |-> {s \in _sessions : now - last_activity[s] <= max_age}]]
    /\ UNCHANGED << now, _sessions, created, script_path, sessvars, proc, thr, appended,
                    destroyed, last_event >>
    /\ UNCHANGED << routevars, lockvars >>

\* The loop `for session_id in to_remove: destroy_session(session_id)': the
\* lookup that begins the next destroy_session, or the end of the sweep.
cleanup_old_sessions_next(c) ==
    /\ call[c].pc = "sweep"
    /\ call' = [call EXCEPT ![c] =
                  IF call[c].to_remove = << >>
                  THEN Returned(c, "cleanup_old_sessions", None, FALSE)
                  ELSE IF get_session(Head(call[c].to_remove)) = None
                  THEN [call[c] EXCEPT !.to_remove = Tail(@)]
                  ELSE [call[c] EXCEPT !.pc = "locked", !.sid = Head(call[c].to_remove)]]
    /\ UNCHANGED << now, _sessions, created, script_path, sessvars, proc, thr, budget,
                    appended, destroyed, history, last_event >>
    /\ UNCHANGED << routevars, lockvars >>

\* ------------------------------------------------------ the child process
BadChunk == 0     \* bytes the utf-8 decoder of the pexpect handle rejects

\* The script writes a chunk of output to its terminal.
ProcWrite(r) ==
    /\ Alive(r)
    /\ proc[r].written < MaxChunks
    /\ \E good \in BOOLEAN :
        proc' = [proc EXCEPT ![r].written = @ + 1,
                             ![r].buf = Append(@, IF good THEN proc[r].written + 1
                                                          ELSE BadChunk)]
    /\ UNCHANGED << now, _sessions, created, script_path, sessvars, thr, call, budget,
                    appended, destroyed, history, last_event >>
    /\ UNCHANGED << routevars, lockvars >>

\* The script ends on its own, with an exit status.
ProcExit(r) ==
    /\ Alive(r)
    /\ \E c \in ExitCodes :
        proc' = [proc EXCEPT ![r].state = "dead", ![r].exitstatus = c]
    /\ UNCHANGED << now, _sessions, created, script_path, sessvars, thr, call, budget,
                    appended, destroyed, history, last_event >>
    /\ UNCHANGED << routevars, lockvars >>

\* -------------------------------------------------- the worker: _run_script
\* A worker that puts its message at the head of the queue.
EnqueueFront(q, m) == << m >> \o q

\* session.output_queue.append(message)
Enqueue(q, m) == Append(q, m)

At(r, pc) == thr[r].pc = pc
Goto(r, pc) == [thr EXCEPT ![r].pc = pc]

\* session.process = pexpect.spawn(...), which may raise.
run_script_spawn(r) ==
    /\ At(r, "spawn")
    /\ \E ok \in BOOLEAN :
        IF ok
        THEN /\ proc' = [proc EXCEPT ![r].state = "alive"]
             /\ process' = [process EXCEPT ![thr[r].sess] = r]
             /\ thr' = Goto(r, "set_running")
        ELSE /\ thr' = [thr EXCEPT ![r].pc = "except", ![r].ended = "spawn_error"]
             /\ UNCHANGED << proc, process >>
    /\ UNCHANGED << now, _sessions, created, script_path, thread, output_queue, is_running,
                    exit_code, last_activity, call, budget, appended, destroyed, history,
                    last_event >>
    /\ UNCHANGED << routevars, lockvars >>

\* with session.lock: is_running = True; last_activity = time.time()
run_script_set_running(r) ==
    /\ At(r, "set_running")
    /\ is_running' = [is_running EXCEPT ![thr[r].sess] = TRUE]
    /\ last_activity' = [last_activity EXCEPT ![thr[r].sess] = now]
    /\ last_event' = [last_event EXCEPT ![thr[r].sess].start = now]
    /\ thr' = Goto(r, "check")
    /\ UNCHANGED << now, _sessions, created, script_path, process, thread, output_queue,
                    exit_code, proc, call, budget, appended, destroyed, history >>
    /\ UNCHANGED << routevars, lockvars >>

\* elapsed_since_activity > TIMEOUT_SECONDS
TimedOut(s) == now - last_activity[s] > TIMEOUT_SECONDS

\* The head of the loop: the inactivity check, under session.lock.
run_script_check_timeout(r) ==
    /\ At(r, "check")
    /\ LET s == thr[r].sess IN
        IF TimedOut(s)
        THEN /\ output_queue' = [output_queue EXCEPT ![s] = Enqueue(@, TimeoutMsg)]
             /\ appended' = [appended EXCEPT ![r] = Append(@, TimeoutMsg)]
             /\ thr' = [thr EXCEPT ![r].pc = "finally", ![r].ended = "timeout"]
             /\ history' = [history EXCEPT !.terminal[s] = TRUE]
        ELSE /\ thr' = Goto(r, "read")
             /\ UNCHANGED << output_queue, appended, history >>
    /\ UNCHANGED << now, _sessions, created, script_path, process, thread, is_running,
                    exit_code, last_activity, proc, call, budget, destroyed, last_event >>
    /\ UNCHANGED << routevars, lockvars >>

\* What session.process.read_nonblocking(size=1, timeout=0.1) does on process p.
ReadOutcome(p) ==
    IF proc[p].closed THEN "error"                 \* ValueError: closed file
    ELSE IF proc[p].buf # << >>
         THEN IF Head(proc[p].buf) = BadChunk THEN "error"   \* UnicodeDecodeError
              ELSE "data"
    ELSE IF Alive(p) THEN "TIMEOUT"
    ELSE "EOF"

\* Where the loop goes after the read: `except Exception: break' leaves
\* the loop for the finally block without appending anything.
AfterRead(outcome) ==
    CASE outcome = "data"    -> "append"
      [] outcome = "TIMEOUT" -> "check"
      [] outcome = "EOF"     -> "close"
      [] outcome = "error"   -> "finally"

run_script_read(r) ==
    /\ At(r, "read")
    /\ LET p == process[thr[r].sess]
           o == ReadOutcome(p) IN
        /\ thr' = [thr EXCEPT ![r].pc = AfterRead(o),
                              ![r].output_text = IF o = "data" THEN Head(proc[p].buf)
                                                 ELSE None,
                              ![r].ended = IF o = "error" THEN "read_error" ELSE @]
        /\ proc' = IF o \in {"data", "error"} /\ proc[p].buf # << >>
                   THEN [proc EXCEPT ![p].buf = Tail(@)]
                   ELSE proc
    /\ UNCHANGED << now, _sessions, created, script_path, sessvars, call, budget, appended,
                    destroyed, history, last_event >>
    /\ UNCHANGED << routevars, lockvars >>

\* with session.lock: output_queue.append({'type': 'output', ...})
run_script_append_output(r) ==
    /\ At(r, "append")
    /\ LET s == thr[r].sess
           m == OutputMsg(thr[r].output_text) IN
        /\ output_queue' = [output_queue EXCEPT ![s] = Enqueue(@, m)]
        /\ appended' = [appended EXCEPT ![r] = Append(@, m)]
    /\ thr' = [thr EXCEPT ![r].pc = "check", ![r].output_text = None]
    /\ UNCHANGED << now, _sessions, created, script_path, process, thread, is_running,
                    exit_code, last_activity, proc, call, budget, destroyed, history,
                    last_event >>
    /\ UNCHANGED << routevars, lockvars >>

\* process.close(): closes the terminal and force-terminates a live child.
Close(p) == [(IF p.state = "alive" THEN Terminate(p) ELSE p) EXCEPT !.closed = TRUE]

\* except pexpect.EOF: session.process.close(); exit_code = process.exitstatus
run_script_close(r) ==
    /\ At(r, "close")
    /\ LET p == process[thr[r].sess] IN
        /\ proc' = [proc EXCEPT ![p] = Close(@)]
        /\ thr' = [thr EXCEPT ![r].pc = "eof", ![r].exit_code = Close(proc[p]).exitstatus]
    /\ UNCHANGED << now, _sessions, created, script_path, sessvars, call, budget, appended,
                    destroyed, history, last_event >>
    /\ UNCHANGED << routevars, lockvars >>

\* with session.lock: exit_code, is_running = False, append the exit message
run_script_eof(r) ==
    /\ At(r, "eof")
    /\ LET s == thr[r].sess
           m == ExitMsg(thr[r].exit_code) IN
        /\ exit_code' = [exit_code EXCEPT ![s] = thr[r].exit_code]
        /\ is_running' = [is_running EXCEPT ![s] = FALSE]
        /\ output_queue' = [output_queue EXCEPT ![s] = Enqueue(@, m)]
        /\ appended' = [appended EXCEPT ![r] = Append(@, m)]
        /\ history' = [history EXCEPT !.terminal[s] = TRUE]
    /\ thr' = [thr EXCEPT ![r].pc = "finally", ![r].exit_code = None, ![r].ended = "exit"]
    /\ UNCHANGED << now, _sessions, created, script_path, process, thread, last_activity,
                    proc, call, budget, destroyed, last_event >>
    /\ UNCHANGED << routevars, lockvars >>

\* The outer `except Exception' (reached when the spawn raised).
run_script_except(r) ==
    /\ At(r, "except")
    /\ LET s == thr[r].sess IN
        /\ is_running' = [is_running EXCEPT ![s] = FALSE]
        /\ output_queue' = [output_queue EXCEPT ![s] = Enqueue(@, ErrorMsg)]
        /\ appended' = [appended EXCEPT ![r] = Append(@, ErrorMsg)]
        /\ history' = [history EXCEPT !.terminal[s] = TRUE]
    /\ thr' = Goto(r, "finally")
    /\ UNCHANGED << now, _sessions, created, script_path, process, thread, exit_code,
                    last_activity, proc, call, budget, destroyed, last_event >>
    /\ UNCHANGED << routevars, lockvars >>

\* finally: if session.process and session.process.isalive(): terminate(force=True)
run_script_finally_terminate(r) ==
    /\ At(r, "finally")
    /\ LET s == thr[r].sess IN
        proc' = IF ProcessAlive(s)
                THEN [proc EXCEPT ![process[s]] = Terminate(@)]
                ELSE proc
    /\ thr' = Goto(r, "finally_lock")
    /\ UNCHANGED << now, _sessions, created, script_path, sessvars, call, budget, appended,
                    destroyed, history, last_event >>
    /\ UNCHANGED << routevars, lockvars >>

\* finally: with session.lock: session.is_running = False
run_script_finally_unset(r) ==
    /\ At(r, "finally_lock")
    /\ is_running' = [is_running EXCEPT ![thr[r].sess] = FALSE]
    /\ thr' = Goto(r, "done")
    /\ UNCHANGED << now, _sessions, created, script_path, process, thread, output_queue,
                    exit_code, last_activity, proc, call, budget, appended,
                    destroyed, history, last_event >>
    /\ UNCHANGED << routevars, lockvars >>

_run_script(r) ==
    \/ run_script_spawn(r)
    \/ run_script_set_running(r)
    \/ run_script_check_timeout(r)
    \/ run_script_read(r)
    \/ run_script_append_output(r)
    \/ run_script_close(r)
    \/ run_script_eof(r)
    \/ run_script_except(r)
    \/ run_script_finally_terminate(r)
    \/ run_script_finally_unset(r)

\* The caller takes the value a call returned and is free for the next call.
call_return(c) ==
    /\ call[c].pc = "returned"
    /\ call' = [call EXCEPT ![c] = Idle]
    /\ UNCHANGED << now, _sessions, created, script_path, sessvars, proc, thr, budget,
                    appended, destroyed, history, last_event >>
    /\ UNCHANGED << routevars, lockvars >>

\* ------------------------------------------------------------ the routes
\* content.get_script_path over a small file tree: what exists under
\* <content>/scripts, what is a regular file, and where each path resolves.
RequestPaths == {"a.py", "missing.py", "notes.txt", "", "../../etc/x.py", "../posts.py"}

PathExists(p) == p # "missing.py"
PathIsFile(p) == p \in {"a.py", "notes.txt", "../../etc/x.py", "../posts.py"}
PathSuffix(p) == CASE p \in {"a.py", "missing.py", "../../etc/x.py", "../posts.py"} -> ".py"
                   [] p = "notes.txt" -> ".txt"
                   [] OTHER -> ""
PathResolve(p) == CASE p = "../../etc/x.py" -> "/etc/x.py"
                    [] p = "../posts.py" -> "/content/posts.py"
                    [] p = "" -> "/content/scripts"
                    [] OTHER -> "/content/scripts/" \o p
\* str(safe_path).startswith(str(content_resolved)), the content directory
\* being /content.
UnderContent(q) == q \in {"/content/scripts", "/content/scripts/a.py",
                          "/content/scripts/notes.txt", "/content/scripts/missing.py",
                          "/content/posts.py"}

\* A get_script_path that accepts whatever it is given.
get_script_path_unchecked(path) == PathResolve(path)

\* The resolved path, or NoPath for None.
get_script_path(path) ==
    IF ~PathExists(path) \/ ~PathIsFile(path) THEN NoPath
    ELSE IF PathSuffix(path) # ".py" THEN NoPath
    ELSE IF ~UnderContent(PathResolve(path)) THEN NoPath
    ELSE PathResolve(path)

\* The anti-forgery tokens a request may carry; "" stands for a missing,
\* null or empty csrf_token as well (`token or ""').
Tokens == {"tok1", "tok2"}
SuppliedTokens == Tokens \cup {""}

\* utils.generate_csrf_token, called when a post page is rendered.
generate_csrf_token ==
    /\ csrf_token' = IF csrf_token = NoToken THEN "tok1" ELSE csrf_token
    /\ UNCHANGED << now, _sessions, created, script_path, sessvars, proc, thr, call, budget,
                    appended, destroyed, history, last_event, req, lockvars >>

\* secrets.compare_digest(token or "", session.get("csrf_token", ""))
validate_csrf_token(token) ==
    token = (IF csrf_token = NoToken THEN "" ELSE csrf_token)

\* A request thread is free to serve a request.
CanServe(c) == req[c].pc \in {"none", "done"} /\ call[c].pc = "idle"

Request(route, pc, token, path, sid) ==
    [route |-> route, pc |-> pc, token |-> token, path |-> path, sid |-> sid,
     batch |-> << >>, events |-> << >>, status |-> 0]

\* The handler returns a plain response with this status.
Respond(r, status) == [r EXCEPT !.pc = "done", !.status = status]

\* The handler returns a response whose body is the one event `error'.
RespondError(r) == [r EXCEPT !.pc = "done", !.status = 200, !.events = << "error" >>]

\* The handler has got the result of the call it made.
Back(c, op) == call[c].pc = "returned" /\ call[c].op = op

\* GET /script/stream: the path is validated, then a session is created
\* and started unless the request names one.
script_stream(c, path, sid, token) ==
    /\ CanServe(c)
    /\ req' = [req EXCEPT ![c] =
                 IF get_script_path(path) = NoPath
                 THEN RespondError(Request("stream", "done", token, path, sid))
                 ELSE IF sid = None
                 THEN Request("stream", "create_session", token, path, sid)
                 ELSE Request("stream", "yield_session", token, path, sid)]
    /\ UNCHANGED << now, _sessions, created, script_path, sessvars, proc, thr, call, budget,
                    appended, destroyed, history, last_event, csrf_token, lockvars >>

\* session_id = script_runner.create_session(script_path)
script_stream_create(c) ==
    /\ req[c].pc = "create_session"
    /\ create_session_with(c, get_script_path(req[c].path))

script_stream_created(c) ==
    /\ req[c].pc = "create_session" /\ Back(c, "create_session")
    /\ req' = [req EXCEPT ![c].sid = call[c].ret, ![c].pc = "start_execution"]
    /\ call' = [call EXCEPT ![c] = Idle]
    /\ UNCHANGED << now, _sessions, created, script_path, sessvars, proc, thr, budget,
                    appended, destroyed, history, last_event, csrf_token, lockvars >>

\* if not script_runner.start_execution(session_id)
script_stream_start(c) ==
    /\ req[c].pc = "start_execution"
    /\ start_execution_get(c, req[c].sid)

script_stream_started(c) ==
    /\ req[c].pc = "start_execution" /\ Back(c, "start_execution")
    /\ req' = [req EXCEPT ![c] = IF call[c].ret THEN [@ EXCEPT !.pc = "yield_session"]
                                 ELSE RespondError(@)]
    /\ call' = [call EXCEPT ![c] = Idle]
    /\ UNCHANGED << now, _sessions, created, script_path, sessvars, proc, thr, budget,
                    appended, destroyed, history, last_event, csrf_token, lockvars >>

\* generate(): yield the `session' event.
generate_session(c) ==
    /\ req[c].pc = "yield_session"
    /\ req' = [req EXCEPT ![c].events = Append(@, "session"), ![c].status = 200,
                          ![c].pc = "check"]
    /\ UNCHANGED << now, _sessions, created, script_path, sessvars, proc, thr, call, budget,
                    appended, destroyed, history, last_event, csrf_token, lockvars >>

\* if not script_runner.get_session(session_id): break
generate_check(c) ==
    /\ req[c].pc = "check"
    /\ req' = [req EXCEPT ![c].pc = IF get_session(req[c].sid) = None THEN "done"
                                    ELSE "get_output"]
    /\ UNCHANGED << now, _sessions, created, script_path, sessvars, proc, thr, call, budget,
                    appended, destroyed, history, last_event, csrf_token, lockvars >>

\* output_messages = script_runner.get_output(session_id)
\* (a stream polls for as long as it lives: its polls are not counted among
\* the public calls of a behaviour)
generate_get_output(c) ==
    /\ req[c].pc = "get_output" /\ call[c].pc = "idle"
    /\ call' = [call EXCEPT ![c] =
                  IF get_session(req[c].sid) = None
                  THEN Returned(c, "get_output", req[c].sid, << >>)
                  ELSE In(c, "get_output", "locked", req[c].sid)]
    /\ UNCHANGED << now, _sessions, created, script_path, sessvars, proc, thr, budget,
                    appended, destroyed, history, last_event, routevars, lockvars >>

generate_drained(c) ==
    /\ req[c].pc = "get_output" /\ Back(c, "get_output")
    /\ req' = [req EXCEPT ![c].batch = call[c].ret, ![c].pc = "forward"]
    /\ call' = [call EXCEPT ![c] = Idle]
    /\ UNCHANGED << now, _sessions, created, script_path, sessvars, proc, thr, budget,
                    appended, destroyed, history, last_event, csrf_token, lockvars >>

\* A stream that goes on after an `exit' or `timeout' event.
StreamNeverEnds(msg_type) == FALSE

\* if msg_type in ("exit", "timeout"): return
StreamEnds(msg_type) == msg_type \in {"exit", "timeout"}

\* for msg in output_messages: yield the event; after the last one, sleep
\* and go round the loop.
generate_yield(c) ==
    /\ req[c].pc = "forward"
    /\ req' = [req EXCEPT ![c] =
                 IF req[c].batch = << >> THEN [@ EXCEPT !.pc = "check"]
                 ELSE LET msg_type == Head(req[c].batch).type IN
                      [@ EXCEPT !.events = Append(@, msg_type),
                                !.batch = IF StreamEnds(msg_type) THEN << >> ELSE Tail(@),
                                !.pc = IF StreamEnds(msg_type) THEN "done" ELSE "forward"]]
    /\ UNCHANGED << now, _sessions, created, script_path, sessvars, proc, thr, call, budget,
                    appended, destroyed, history, last_event, csrf_token, lockvars >>

\* The head of the three POST handlers: the token, then the session id.
Checked(route, pc, token, sid) ==
    IF ~validate_csrf_token(token)
    THEN Respond(Request(route, "done", token, NoPath, sid), 403)
    ELSE IF sid = None
    THEN Respond(Request(route, "done", token, NoPath, sid), 400)
    ELSE Request(route, pc, token, NoPath, sid)

\* POST /script/input
script_input(c, token, sid) ==
    /\ CanServe(c)
    /\ req' = [req EXCEPT ![c] = Checked("input", "send_input", token, sid)]
    /\ UNCHANGED << now, _sessions, created, script_path, sessvars, proc, thr, call, budget,
                    appended, destroyed, history, last_event, csrf_token, lockvars >>

\* if script_runner.send_input(session_id, text)
script_input_send(c) ==
    /\ req[c].pc = "send_input"
    /\ send_input_get(c, req[c].sid)

script_input_sent(c) ==
    /\ req[c].pc = "send_input" /\ Back(c, "send_input")
    /\ req' = [req EXCEPT ![c] = IF call[c].ret THEN [@ EXCEPT !.pc = "update_activity"]
                                 ELSE Respond(@, 500)]
    /\ call' = [call EXCEPT ![c] = Idle]
    /\ UNCHANGED << now, _sessions, created, script_path, sessvars, proc, thr, budget,
                    appended, destroyed, history, last_event, csrf_token, lockvars >>

\* POST /script/keepalive
script_keepalive(c, token, sid) ==
    /\ CanServe(c)
    /\ req' = [req EXCEPT ![c] = Checked("keepalive", "update_activity", token, sid)]
    /\ UNCHANGED << now, _sessions, created, script_path, sessvars, proc, thr, call, budget,
                    appended, destroyed, history, last_event, csrf_token, lockvars >>

\* script_runner.update_activity(session_id), in script_input and in
\* script_keepalive.
route_update_activity(c) ==
    /\ req[c].pc = "update_activity"
    /\ update_activity_get(c, req[c].sid)

\* script_input ignores the result; script_keepalive answers 404 on False.
route_update_activity_done(c) ==
    /\ req[c].pc = "update_activity" /\ Back(c, "update_activity")
    /\ req' = [req EXCEPT ![c] = IF req[c].route = "input" \/ call[c].ret
                                 THEN Respond(@, 200) ELSE Respond(@, 404)]
    /\ call' = [call EXCEPT ![c] = Idle]
    /\ UNCHANGED << now, _sessions, created, script_path, sessvars, proc, thr, budget,
                    appended, destroyed, history, last_event, csrf_token, lockvars >>

\* POST /script/stop
script_stop(c, token, sid) ==
    /\ CanServe(c)
    /\ req' = [req EXCEPT ![c] = Checked("stop", "destroy_session", token, sid)]
    /\ UNCHANGED << now, _sessions, created, script_path, sessvars, proc, thr, call, budget,
                    appended, destroyed, history, last_event, csrf_token, lockvars >>

\* if script_runner.destroy_session(session_id)
script_stop_destroy(c) ==
    /\ req[c].pc = "destroy_session"
    /\ destroy_session_get(c, req[c].sid)

script_stop_done(c) ==
    /\ req[c].pc = "destroy_session" /\ Back(c, "destroy_session")
    /\ req' = [req EXCEPT ![c] = IF call[c].ret THEN Respond(@, 200) ELSE Respond(@, 404)]
    /\ call' = [call EXCEPT ![c] = Idle]
    /\ UNCHANGED << now, _sessions, created, script_path, sessvars, proc, thr, budget,
                    appended, destroyed, history, last_event, csrf_token, lockvars >>

\* ---------------------------------------------------------- the locks
\* The operations again, at the grain of their lock acquisitions: a thread
\* that finds a lock taken stays where it is until the lock is released.
\* Of the session's fields this part keeps the ones that decide which lock
\* is taken next: the registry, last_activity and is_running; the queue, the
\* exit code and the child process are left to the actions above.
LockedOps == {"start_execution", "send_input", "update_activity", "get_output",
              "is_running", "destroy_session"}

\* A public call begins: its first step will be get_session's
\* `with _sessions_lock:'.
locked_call(t, o, sid) ==
    /\ held[t].pc = "free" /\ opsLeft > 0
    /\ opsLeft' = opsLeft - 1
    /\ held' = [held EXCEPT ![t] = [Free EXCEPT !.op = o, !.pc = "registry_wait", !.sid = sid]]
    /\ UNCHANGED << now, _sessions, created, script_path, sessvars, proc, thr, call,
                    runsLeft, ticksLeft, appended, destroyed, history, last_event,
                    routevars, _sessions_lock, lock >>

\* create_session begins: the session object is built, then the thread
\* wants _sessions_lock to register it.
locked_create(t) ==
    /\ held[t].pc = "free" /\ opsLeft > 0
    /\ created + Cardinality({u \in Threads : held[u].op = "create_session"}) < MaxSessions
    /\ opsLeft' = opsLeft - 1
    /\ held' = [held EXCEPT ![t] = [Free EXCEPT !.op = "create_session",
                                               !.pc = "registry_wait", !.now = now]]
    /\ UNCHANGED << now, _sessions, created, script_path, sessvars, proc, thr, call,
                    runsLeft, ticksLeft, appended, destroyed, history, last_event,
                    routevars, _sessions_lock, lock >>

\* with _sessions_lock: _sessions[session_id] = session
create_release(t) ==
    /\ held[t].pc = "registry_held" /\ held[t].op = "create_session"
    /\ _sessions_lock = t
    /\ _sessions_lock' = None
    /\ LET sid == created + 1 IN
        /\ created' = sid
        /\ _sessions' = _sessions \cup {sid}
        /\ script_path' = [script_path EXCEPT ![sid] = "a.py"]
        /\ history' = [history EXCEPT !.given[sid] = "a.py"]
        /\ last_activity' = [last_activity EXCEPT ![sid] = held[t].now]
    /\ held' = [held EXCEPT ![t] = Free]
    /\ UNCHANGED << now, process, thread, output_queue, is_running, exit_code, proc, thr,
                    call, budget, appended, destroyed, last_event, routevars, lock >>

\* cleanup_old_sessions begins: it reads the clock, then wants _sessions_lock.
locked_cleanup(t, max_age) ==
    /\ held[t].pc = "free" /\ opsLeft > 0
    /\ opsLeft' = opsLeft - 1
    /\ held' = [held EXCEPT ![t] = [Free EXCEPT !.op = "cleanup_old_sessions",
                                               !.pc = "cleanup_wait",
                                               !.now = now, !.max_age = max_age]]
    /\ UNCHANGED << now, _sessions, created, script_path, sessvars, proc, thr, call,
                    runsLeft, ticksLeft, appended, destroyed, history, last_event,
                    routevars, _sessions_lock, lock >>

\* `with _sessions_lock:' is entered, by get_session, by the sweep's scan or
\* by destroy_session's pop.
registry_acquire(t) ==
    /\ held[t].pc \in {"registry_wait", "cleanup_wait", "pop_wait"}
    /\ _sessions_lock = None
    /\ _sessions_lock' = t
    /\ held' = [held EXCEPT ![t].pc = CASE held[t].pc = "registry_wait" -> "registry_held"
                                         [] held[t].pc = "cleanup_wait"  -> "cleanup_held"
                                         [] held[t].pc = "pop_wait"      -> "pop_held",
                            ![t].todo = IF held[t].pc = "cleanup_wait"
                                        THEN Ascending(_sessions) ELSE @]
    /\ UNCHANGED << now, _sessions, created, script_path, sessvars, proc, thr, call,
                    budget, appended, destroyed, history, last_event, routevars, lock >>

\* What a thread does after a destroy_session of its own: a sweep begins
\* the destroy_session of the next id it noted, anything else returns.
NextDestroy(h) ==
    IF h.to_remove # << >>
    THEN [h EXCEPT !.pc = "registry_wait", !.sid = Head(h.to_remove),
                   !.to_remove = Tail(h.to_remove)]
    ELSE Free

\* get_session returns and releases _sessions_lock; the caller returns
\* False (or []) for an id that is not registered.
get_session_release(t) ==
    /\ held[t].pc = "registry_held" /\ held[t].op # "create_session"
    /\ _sessions_lock = t
    /\ _sessions_lock' = None
    /\ held' = [held EXCEPT ![t] = IF get_session(held[t].sid) # None
                                   THEN [@ EXCEPT !.pc = "session_wait"]
                                   ELSE NextDestroy(@)]
    /\ UNCHANGED << now, _sessions, created, script_path, sessvars, proc, thr, call,
                    budget, appended, destroyed, history, last_event, routevars, lock >>

\* `with session.lock:' is entered by an operation on that session.
session_acquire(t) ==
    /\ held[t].pc = "session_wait"
    /\ lock[held[t].sid] = None
    /\ lock' = [lock EXCEPT ![held[t].sid] = t]
    /\ held' = [held EXCEPT ![t].pc = "session_held"]
    /\ UNCHANGED << now, _sessions, created, script_path, sessvars, proc, thr, call,
                    budget, appended, destroyed, history, last_event, routevars,
                    _sessions_lock >>

\* A destroy_session that keeps the session's lock while it goes on to the
\* registry.
KeptByDestroy(t) ==
    IF held[t].op \in {"destroy_session", "cleanup_old_sessions"}
    THEN lock
    ELSE [lock EXCEPT ![held[t].sid] = None]

\* The end of a `with session.lock:' block releases the lock.
Unlocked(t) == [lock EXCEPT ![held[t].sid] = None]

\* The locked block of the operation ends. update_activity has stamped the
\* session, and so has a send_input whose sendline went through;
\* start_execution has stamped it and launched a worker unless the session
\* was running (the thread's slot goes on as that worker, which either
\* spawns the child and sets is_running or fails to spawn); destroy_session
\* has cleared is_running and goes on to pop the id; the others return.
session_release(t) ==
    /\ held[t].pc = "session_held" /\ lock[held[t].sid] = t
    /\ lock' = Unlocked(t)
    /\ LET s == held[t].sid
           o == held[t].op
           launches == o = "start_execution" /\ ~is_running[s] IN
        /\ \E sent \in {b \in BOOLEAN : b => (o = "send_input" /\ is_running[s])} :
              last_activity' = IF o = "update_activity" \/ launches \/ sent
                               THEN [last_activity EXCEPT ![s] = now] ELSE last_activity
        /\ is_running' = IF o \in {"destroy_session", "cleanup_old_sessions"}
                         THEN [is_running EXCEPT ![s] = FALSE] ELSE is_running
        /\ \/ /\ o \in {"destroy_session", "cleanup_old_sessions"}
              /\ held' = [held EXCEPT ![t].pc = "pop_wait"]
           \/ /\ launches
              /\ \E first \in {"run_wait", "loop_wait"} :
                    held' = [held EXCEPT ![t] = [Free EXCEPT !.op = "_run_script",
                                                            !.pc = first, !.sid = s]]
           \/ /\ o \notin {"destroy_session", "cleanup_old_sessions"} /\ ~launches
              /\ held' = [held EXCEPT ![t] = Free]
    /\ UNCHANGED << now, _sessions, created, script_path, process, thread, output_queue,
                    exit_code, proc, thr, call, budget, appended, destroyed, history,
                    last_event, routevars, _sessions_lock >>

\* The worker enters one of its `with session.lock:' blocks.
worker_acquire(t) ==
    /\ held[t].pc \in {"run_wait", "loop_wait", "finally_wait"}
    /\ lock[held[t].sid] = None
    /\ lock' = [lock EXCEPT ![held[t].sid] = t]
    /\ held' = [held EXCEPT ![t].pc = CASE held[t].pc = "run_wait"  -> "run_held"
                                         [] held[t].pc = "loop_wait" -> "loop_held"
                                         [] OTHER                    -> "finally_held"]
    /\ UNCHANGED << now, _sessions, created, script_path, sessvars, proc, thr, call,
                    budget, appended, destroyed, history, last_event, routevars,
                    _sessions_lock >>

\* The worker leaves the block: after `is_running = True' (and the stamp of
\* last_activity that goes with it) the loop begins; a
\* block of the loop is followed by another one, or it ended the run (the
\* EOF and error handlers clear is_running, the timeout check does not) and
\* the finally block follows; the finally block clears is_running.
worker_release(t) ==
    /\ held[t].pc \in {"run_held", "loop_held", "finally_held"}
    /\ lock[held[t].sid] = t
    /\ lock' = Unlocked(t)
    /\ LET s == held[t].sid IN
        CASE held[t].pc = "run_held" ->
               /\ is_running' = [is_running EXCEPT ![s] = TRUE]
               /\ last_activity' = [last_activity EXCEPT ![s] = now]
               /\ held' = [held EXCEPT ![t].pc = "loop_wait"]
          [] held[t].pc = "loop_held" ->
               \/ /\ held' = [held EXCEPT ![t].pc = "loop_wait"]
                  /\ UNCHANGED << is_running, last_activity >>
               \/ /\ held' = [held EXCEPT ![t].pc = "finally_wait"]
                  /\ \E cleared \in BOOLEAN :
                        is_running' = [is_running EXCEPT ![s] = IF cleared THEN FALSE ELSE @]
                  /\ UNCHANGED last_activity
          [] OTHER ->
               /\ is_running' = [is_running EXCEPT ![s] = FALSE]
               /\ held' = [held EXCEPT ![t] = Free]
               /\ UNCHANGED last_activity
    /\ UNCHANGED << now, _sessions, created, script_path, process, thread, output_queue,
                    exit_code, proc, thr, call, budget, appended, destroyed,
                    history, last_event, routevars, _sessions_lock >>

\* with _sessions_lock: _sessions.pop(session_id, None)
pop_release(t) ==
    /\ held[t].pc = "pop_held" /\ _sessions_lock = t
    /\ _sessions_lock' = None
    /\ _sessions' = RegistryPop(held[t].sid)
    /\ held' = [held EXCEPT ![t] = NextDestroy(@)]
    /\ UNCHANGED << now, created, script_path, sessvars, proc, thr, call,
                    budget, appended, destroyed, history, last_event, routevars, lock >>

\* The sweep's scan, holding _sessions_lock, enters `with session.lock:' of
\* the next session of the registry.
scan_acquire(t) ==
    /\ held[t].pc = "cleanup_held" /\ held[t].todo # << >>
    /\ lock[Head(held[t].todo)] = None
    /\ lock' = [lock EXCEPT ![Head(held[t].todo)] = t]
    /\ held' = [held EXCEPT ![t].pc = "scan_held"]
    /\ UNCHANGED << now, _sessions, created, script_path, sessvars, proc, thr, call,
                    budget, appended, destroyed, history, last_event, routevars,
                    _sessions_lock >>

\* age > max_age_seconds and not session.is_running, with the sweep's own
\* reading of the clock.
ScanStale(t, s) == held[t].now - last_activity[s] > held[t].max_age /\ ~is_running[s]

\* The scan's locked block ends: the session is noted if it is stale.
scan_release(t) ==
    /\ held[t].pc = "scan_held"
    /\ LET s == Head(held[t].todo) IN
        /\ lock[s] = t
        /\ lock' = [lock EXCEPT ![s] = None]
        /\ held' = [held EXCEPT ![t].pc = "cleanup_held",
                                ![t].todo = Tail(@),
                                ![t].to_remove = IF ScanStale(t, s) THEN Append(@, s) ELSE @]
    /\ UNCHANGED << now, _sessions, created, script_path, sessvars, proc, thr, call,
                    budget, appended, destroyed, history, last_event, routevars,
                    _sessions_lock >>

\* The scan is over: _sessions_lock is released and the destroys begin.
cleanup_release(t) ==
    /\ held[t].pc = "cleanup_held" /\ held[t].todo = << >>
    /\ _sessions_lock = t
    /\ _sessions_lock' = None
    /\ held' = [held EXCEPT ![t] = NextDestroy(@)]
    /\ UNCHANGED << now, _sessions, created, script_path, sessvars, proc, thr, call,
                    budget, appended, destroyed, history, last_event, routevars, lock >>

\* ------------------------------------------------------ specifications
Worker ==
    \/ \E r \in Runs : _run_script(r)
    \/ \E r \in Runs : ProcWrite(r)
    \/ \E r \in Runs : ProcExit(r)

Starting(C, S) ==
    \/ \E c \in C : created + 1 \in S /\ create_session(c)
    \/ \E c \in C, sid \in S : start_execution_get(c, sid)
    \/ \E c \in C : start_execution_locked(c)
    \/ \E c \in C : call_return(c)

Lifecycle(C, S) ==
    \/ \E c \in C : created + 1 \in S /\ create_session(c)
    \/ \E c \in C, sid \in S : start_execution_get(c, sid)
    \/ \E c \in C : start_execution_locked(c)
    \/ \E c \in C, sid \in S : destroy_session_get(c, sid)
    \/ \E c \in C : destroy_session_locked(c)
    \/ \E c \in C : destroy_session_pop(c)
    \/ \E c \in C : call_return(c)

Observe(C, S) ==
    \/ \E c \in C, sid \in S : get_output_get(c, sid)
    \/ \E c \in C : get_output_locked(c)
    \/ \E c \in C, sid \in S : is_running_get(c, sid)
    \/ \E c \in C : is_running_locked(c)

Activity(C, S) ==
    \/ \E c \in C, sid \in S : send_input_get(c, sid)
    \/ \E c \in C : send_input_locked(c)
    \/ \E c \in C, sid \in S : update_activity_get(c, sid)
    \/ \E c \in C : update_activity_locked(c)

Draining(C, S) ==
    \/ \E c \in C, sid \in S : get_output_get(c, sid)
    \/ \E c \in C : get_output_locked(c)

Sweep(C) ==
    \/ \E c \in C, a \in MaxAges : cleanup_old_sessions_scan(c, a)
    \/ \E c \in C : cleanup_old_sessions_next(c)

\* Spec: two request threads race on one session's lifecycle, with the
\* workers they start; the clock stands still.
Next ==
    \/ Lifecycle(Callers, OneSession)
    \/ Observe(Callers, OneSession)
    \/ Worker

Spec == Init /\ [][Next]_vars

\* SpecTimed: one request thread, one run, and the clock.
InitTimed == InitWith(TimedOps, TimedRuns, MaxTicks)

NextTimed ==
    \/ Tick
    \/ Lifecycle({1}, OneSession)
    \/ Observe({1}, OneSession)
    \/ Activity({1}, OneSession)
    \/ Worker

SpecTimed == InitTimed /\ [][NextTimed]_vars

\* SpecRestart: one request thread starts a session twice while the clock runs.
InitRestart == InitWith(RestartOps, MaxRuns, RestartTicks)

NextRestart ==
    \/ Tick
    \/ Starting({1}, OneSession)
    \/ Worker

SpecRestart == InitRestart /\ [][NextRestart]_vars

\* SpecRace: one request thread creates and starts a session while a second
\* one destroys it, so that a start can fall between the two blocks of a
\* destroy_session.
InitRace == InitWith(RaceOps, MaxRuns, 0)

NextRace ==
    \/ Starting({1}, OneSession)
    \/ \E sid \in OneSession : destroy_session_get(2, sid)
    \/ destroy_session_locked(2)
    \/ destroy_session_pop(2)
    \/ call_return(2)
    \/ Worker

SpecRace == InitRace /\ [][NextRace]_vars

\* SpecDrain: request threads drain the queue of a session's one run while
\* its worker appends to it.
InitDrain == InitWith(DrainOps, 1, 0)

NextDrain ==
    \/ Starting(Callers, OneSession)
    \/ Draining(Callers, OneSession)
    \/ Worker

SpecDrain == InitDrain /\ [][NextDrain]_vars

\* SpecApi: one request thread uses every operation but the sweep, on up to
\* two sessions and on an id that was never handed out; one run.
InitApi == InitWith(ApiOps, 1, 0)

NextApi ==
    \/ \E p \in ScriptPaths : create_session_with(1, p)
    \/ Lifecycle({1}, Ids)
    \/ Observe({1}, Ids)
    \/ Activity({1}, Ids)
    \/ Worker

SpecApi == InitApi /\ [][NextApi]_vars

\* SpecActivity: one request thread starts a session once and sends it input
\* and keepalives while the clock runs.
InitActivity == InitWith(ActivityOps, 1, ActivityTicks)

NextActivity ==
    \/ Tick
    \/ Starting({1}, OneSession)
    \/ Activity({1}, OneSession)
    \/ Worker

SpecActivity == InitActivity /\ [][NextActivity]_vars

\* SpecSweepAlone: one thread creates sessions, starts one run and sweeps the
\* registry while the clock runs.
InitSweepAlone == InitWith(SweepOps, 1, SweepTicks)

NextSweepAlone ==
    \/ Tick
    \/ Starting({1}, SessionIds)
    \/ Sweep({1})
    \/ destroy_session_locked(1)
    \/ destroy_session_pop(1)
    \/ Worker

SpecSweepAlone == InitSweepAlone /\ [][NextSweepAlone]_vars

\* SpecSweep: a maintenance thread sweeps the registry while a request
\* thread creates and starts a session and the clock runs.
InitSweep == InitWith(SweepOps, 1, SweepTicks)

NextSweep ==
    \/ Tick
    \/ Starting(Callers, SessionIds)
    \/ Sweep(Callers)
    \/ \E c \in Callers : destroy_session_locked(c)
    \/ \E c \in Callers : destroy_session_pop(c)
    \/ Worker

SpecSweep == InitSweep /\ [][NextSweep]_vars

\* The request handlers of routes.py and the runner calls they make.
\* The push stream: the request, the session it creates and starts, and the
\* generator's loop.
Streams(C, S) ==
    \/ \E c \in C, p \in RequestPaths, sid \in S \cup {None}, k \in SuppliedTokens :
          script_stream(c, p, sid, k)
    \/ \E c \in C : script_stream_create(c)
    \/ \E c \in C : script_stream_created(c)
    \/ \E c \in C : script_stream_start(c)
    \/ \E c \in C : start_execution_locked(c)
    \/ \E c \in C : script_stream_started(c)
    \/ \E c \in C : generate_session(c)
    \/ \E c \in C : generate_check(c)
    \/ \E c \in C : generate_get_output(c)
    \/ \E c \in C : get_output_locked(c)
    \/ \E c \in C : generate_drained(c)
    \/ \E c \in C : generate_yield(c)

Routes(C, S) ==
    \/ generate_csrf_token
    \/ Streams(C, S)
    \/ \E c \in C, k \in SuppliedTokens, sid \in S \cup {None} : script_input(c, k, sid)
    \/ \E c \in C : script_input_send(c)
    \/ \E c \in C : send_input_locked(c)
    \/ \E c \in C : script_input_sent(c)
    \/ \E c \in C, k \in SuppliedTokens, sid \in S \cup {None} : script_keepalive(c, k, sid)
    \/ \E c \in C : route_update_activity(c)
    \/ \E c \in C : update_activity_locked(c)
    \/ \E c \in C : route_update_activity_done(c)
    \/ \E c \in C, k \in SuppliedTokens, sid \in S \cup {None} : script_stop(c, k, sid)
    \/ \E c \in C : script_stop_destroy(c)
    \/ \E c \in C : destroy_session_locked(c)
    \/ \E c \in C : destroy_session_pop(c)
    \/ \E c \in C : script_stop_done(c)

\* SpecRoutes: one request thread serves the script endpoints for one web
\* session, one request after the other, with the worker its stream starts.
InitRoutes == InitWith(RouteOps, 1, 0)

NextRoutes ==
    \/ Routes({1}, Ids)
    \/ Worker

SpecRoutes == InitRoutes /\ [][NextRoutes]_vars

\* SpecStream: one request thread opens push streams, and
\* every thread that can take a step eventually takes one.
InitStream == InitWith(StreamOps, 1, 0)

NextStream ==
    \/ Streams({1}, Ids)
    \/ Worker

SpecStream ==
    /\ InitStream /\ [][NextStream]_vars
    /\ WF_vars(Streams({1}, Ids))
    /\ WF_vars(\E r \in Runs : _run_script(r))

\* SpecLocks: three threads call the operations on two registered sessions
\* that were never started, and sweep the registry, at the grain of the locks.
InitLocks ==
    /\ opsLeft = LockOps
    /\ runsLeft = 0
    /\ ticksLeft = LockTicks
    /\ now = 0
    /\ _sessions = OneSession
    /\ created = 1
    /\ script_path = [s \in SessionIds |-> IF s \in OneSession THEN "a.py" ELSE NoPath]
    /\ process = [s \in SessionIds |-> None]
    /\ thread = [s \in SessionIds |-> None]
    /\ output_queue = [s \in SessionIds |-> << >>]
    /\ is_running = [s \in SessionIds |-> FALSE]
    /\ exit_code = [s \in SessionIds |-> None]
    /\ last_activity = [s \in SessionIds |-> 0]
    /\ proc = [r \in Runs |-> NoProc]
    /\ thr = [r \in Runs |-> NoThr]
    /\ call = [c \in Callers |-> Idle]
    /\ appended = [r \in Runs |-> << >>]
    /\ destroyed = [s \in Ids |-> << >>]
    /\ last_event = [s \in SessionIds |-> NoEvent]
    /\ history = [drained |-> [s \in SessionIds |-> << >>],
                  swept   |-> [c \in Callers |-> NoSweep],
                  given   |-> [s \in SessionIds |-> IF s \in OneSession THEN "a.py" ELSE NoPath],
                  terminal |-> [s \in SessionIds |-> FALSE],
                  restart |-> [s \in SessionIds |-> FALSE]]
    /\ req = [c \in Callers |-> NoRequest]
    /\ csrf_token = NoToken
    /\ _sessions_lock = None
    /\ lock = [s \in SessionIds |-> None]
    /\ held = [t \in Threads |-> Free]

NextLocks ==
    \/ Tick
    \/ \E t \in Threads, o \in LockedOps, sid \in SessionIds : locked_call(t, o, sid)
    \/ \E t \in Threads : locked_create(t)
    \/ \E t \in Threads : create_release(t)
    \/ \E t \in Threads, a \in MaxAges : locked_cleanup(t, a)
    \/ \E t \in Threads : registry_acquire(t)
    \/ \E t \in Threads : get_session_release(t)
    \/ \E t \in Threads : session_acquire(t)
    \/ \E t \in Threads : session_release(t)
    \/ \E t \in Threads : worker_acquire(t)
    \/ \E t \in Threads : worker_release(t)
    \/ \E t \in Threads : pop_release(t)
    \/ \E t \in Threads : scan_acquire(t)
    \/ \E t \in Threads : scan_release(t)
    \/ \E t \in Threads : cleanup_release(t)

SpecLocks == InitLocks /\ [][NextLocks]_vars

\* ---------------------------------------------------------------- claims
RunsOf(s) == {r \in Runs : thr[r].sess = s}

\* The worker is still before or inside its execution loop.
InLoop(r) == thr[r].pc \in {"spawn", "set_running", "check", "read", "append",
                            "close", "eof", "except"}

\* The worker has left the execution loop.
LoopOver(r) == thr[r].pc \in {"finally", "finally_lock", "done"}

Count(seq, types) == Cardinality({i \in 1..Len(seq) : seq[i].type \in types})

\* Caller c's call of op returns in this step.
Returns(c, op) ==
    /\ call[c].pc # "returned" /\ call'[c].pc = "returned"
    /\ call'[c].op = op

\* C1: a start_execution on a session that has a run which has not left its
\* execution loop returns false.
C1_SecondStartRefused ==
    [][\A c \in Callers :
          (Returns(c, "start_execution") /\ call'[c].sid \in SessionIds
             /\ \E r \in RunsOf(call'[c].sid) : InLoop(r))
          => call'[c].ret = FALSE]_vars

\* C2: a run whose execution loop has finished has appended exactly one
\* terminal message (exit, timeout or error).
C2_OneTerminalMessage ==
    \A r \in Runs : LoopOver(r) => Count(appended[r], Terminal) = 1

\* C3: when a worker finishes, the child process its run spawned is not alive
\* and the session's is_running flag is false.
C3_FinishedMeansStopped ==
    [][\A r \in Runs :
          (thr[r].pc # "done" /\ thr'[r].pc = "done")
          => (proc'[r].state # "alive" /\ ~is_running'[thr[r].sess])]_vars

\* C4: once destroy_session has returned true for a session, none of its child
\* processes is alive and its is_running flag is false.
C4_DestroyedStaysStopped ==
    \A s \in SessionIds :
        destroyed[s] # << >> => (~is_running[s] /\ \A r \in RunsOf(s) : ~Alive(r))

\* The value a call returns for an id that is not in the registry.
Falsy(rec) == rec.ret = (IF rec.op = "get_output" THEN << >> ELSE FALSE)

\* C5: a destroy_session on a registered session returns true; from then on
\* the id is not in the registry, and every call on it begun afterwards
\* (is_running, get_output, ...) returns at once with False or an empty list.
C5_DestroyedIsGone ==
    /\ [](\A s \in SessionIds : destroyed[s] # << >> => get_session(s) = None)
    /\ [][\A c \in Callers :
            /\ (Returns(c, "destroy_session") /\ call'[c].sid \in _sessions)
                 => call'[c].ret = TRUE
            /\ (call[c].pc = "idle" /\ call'[c].pc # "idle"
                  /\ call'[c].sid \in SessionIds /\ destroyed[call'[c].sid] # << >>)
                 => (call'[c].pc = "returned" /\ Falsy(call'[c]))]_vars

\* A session whose run had timed out was destroyed, and a get_output called
\* afterwards has returned.
C5_Witness ==
    \E c \in Callers :
        /\ call[c].pc = "returned" /\ call[c].op = "get_output"
        /\ call[c].sid \in SessionIds
        /\ destroyed[call[c].sid] = << "TIMED_OUT" >>

\* C6: at most one destroy_session call on an id returns true.
C6_OneDestroyReturnsTrue ==
    \A s \in Ids : Len(destroyed[s]) <= 1

\* The latest of the session's start, last input and last keepalive.
Max(a, b) == IF a >= b THEN a ELSE b
LatestEvent(s) == Max(last_event[s].start, Max(last_event[s].input, last_event[s].keepalive))

\* The read at the end of this iteration would report EOF.
EofObservable(r) == ReadOutcome(process[thr[r].sess]) = "EOF"

\* C7: an iteration of the loop in which the child has already terminated
\* does not end the run with a timeout message.
C7_EofBeforeTimeout ==
    [][\A r \in Runs :
          (thr[r].pc = "check" /\ thr'[r].pc # "check" /\ EofObservable(r))
          => thr'[r].ended # "timeout"]_vars

\* C8: a run whose loop was ended by an exception raised while reading from
\* the child process has appended an error message.
C8_ReadErrorReported ==
    \A r \in Runs :
        thr[r].ended = "read_error" => Count(appended[r], {"error"}) >= 1

\* C9 (its outcome): a run that was ended by the inactivity timeout, once its
\* worker has finished, has appended exactly one timeout message, its child
\* process is not alive, and the session is not running once all its workers
\* have finished.
C9_TimeoutOutcome ==
    \A r \in Runs :
        (thr[r].pc = "done" /\ thr[r].ended = "timeout")
        => /\ Count(appended[r], {"timeout"}) = 1
           /\ ~Alive(r)
           /\ (\A q \in RunsOf(thr[r].sess) : thr[q].pc = "done")
                 => ~is_running[thr[r].sess]

\* C10: a timeout message is appended only when more than TIMEOUT_SECONDS
\* have passed since the latest of the run's start, the last successful
\* send_input and the last update_activity.
C10_TimeoutOnlyAfterWindow ==
    [][\A r \in Runs :
          (thr[r].ended # "timeout" /\ thr'[r].ended = "timeout")
          => now - LatestEvent(thr[r].sess) > TIMEOUT_SECONDS]_vars

\* A run timed out although the session had been given a keepalive after
\* the run started.
C10_Witness ==
    \E r \in Runs :
        /\ thr[r].ended = "timeout" /\ thr[r].pc = "finally"
        /\ last_event[thr[r].sess].keepalive > last_event[thr[r].sess].start
        /\ now - last_event[thr[r].sess].keepalive > TIMEOUT_SECONDS

\* The messages get_output has returned for session s, in the order returned.
Drained(s) == [i \in 1..Len(history.drained[s]) |-> history.drained[s][i].msg]

IsPrefix(p, q) == Len(p) <= Len(q) /\ \A i \in 1..Len(p) : p[i] = q[i]

\* C11: no message appended to a session's queue is returned by two
\* get_output calls, and a get_output leaves the queue empty, so that a
\* second call with no append in between returns the empty list.
C11_DeliveredAtMostOnce ==
    /\ [](\A s \in SessionIds : \A i, j \in 1..Len(history.drained[s]) :
            i # j => history.drained[s][i].nr # history.drained[s][j].nr)
    /\ [][\A c \in Callers :
            (call[c].pc = "locked" /\ Returns(c, "get_output"))
            => (call'[c].ret = output_queue[call[c].sid]
                  /\ output_queue'[call[c].sid] = << >>)]_vars

\* Two get_output calls have each returned a part of one run's messages.
C11_Witness ==
    \E c \in Callers, s \in SessionIds :
        /\ call[c].pc = "returned" /\ call[c].op = "get_output" /\ call[c].sid = s
        /\ call[c].ret # << >>
        /\ Len(history.drained[s]) > Len(call[c].ret)

\* C12: for a session with one run, the messages returned so far by
\* get_output are a prefix of the messages the run has appended, in order;
\* a get_output made after the run's loop has ended completes them.
C12_DrainIsPrefix ==
    /\ [](\A r \in Runs :
            (thr[r].sess \in SessionIds /\ RunsOf(thr[r].sess) = {r})
            => IsPrefix(Drained(thr[r].sess), appended[r]))
    /\ [][\A c \in Callers, r \in Runs :
            (call[c].pc = "locked" /\ Returns(c, "get_output")
               /\ RunsOf(call[c].sid) = {r} /\ LoopOver(r))
            => Drained(call[c].sid)' = appended[r]]_vars

\* A run that appended output and then its exit message has ended, and the
\* second of two get_output calls has returned the rest of its messages.
C12_Witness ==
    \E c \in Callers, r \in Runs :
        /\ call[c].pc = "returned" /\ call[c].op = "get_output"
        /\ call[c].sid = thr[r].sess /\ LoopOver(r)
        /\ Len(appended[r]) >= 2
        /\ Len(call[c].ret) = 1
        /\ Drained(thr[r].sess) = appended[r]

\* This step is one of caller c's call of op (not the caller taking the result).
StepOf(c, op) == call'[c] # call[c] /\ call'[c].op = op

\* The fields of session s.
Fields(s) == << script_path[s], process[s], thread[s], output_queue[s],
                is_running[s], exit_code[s], last_activity[s] >>

\* C13: cleanup_old_sessions never destroys a session that is running: one
\* whose is_running flag is set, or one that has a worker which has not left
\* its execution loop.
C13_SweepSparesRunning ==
    [][\A c \in Callers :
          (call[c].op = "cleanup_old_sessions" /\ call[c].pc = "locked"
             /\ call'[c].pc = "pop")
          => (~is_running[call[c].sid]
                /\ \A r \in RunsOf(call[c].sid) : ~InLoop(r))]_vars

C15_InputRefusedWhenNotRunning ==
    [][\A c \in Callers :
          (call[c].pc = "locked" /\ Returns(c, "send_input")
             /\ (thread[call[c].sid] = None \/ history.terminal[call[c].sid]))
          => /\ call'[c].ret = FALSE
             /\ proc' = proc
             /\ last_activity' = last_activity
             /\ output_queue' = output_queue]_vars

\* C16: a call on an id that is not in the registry returns at once, with
\* False (an empty list from get_output), and leaves the registry and every
\* session as they were; get_session returns None for such an id.
C16_UnknownIdRefused ==
    /\ [](\A sid \in Ids \ _sessions : get_session(sid) = None)
    /\ [][\A c \in Callers :
            (call[c].pc = "idle" /\ call'[c].pc # "idle"
               /\ call'[c].op \notin {"create_session", "cleanup_old_sessions"}
               /\ call'[c].sid \notin _sessions)
            => /\ call'[c].pc = "returned" /\ Falsy(call'[c])
               /\ _sessions' = _sessions
               /\ \A s \in SessionIds : Fields(s)' = Fields(s)]_vars

\* A second destroy_session on an id has returned False.
C16_Witness ==
    \E c \in Callers :
        /\ call[c].pc = "returned" /\ call[c].op = "destroy_session"
        /\ call[c].sid \in SessionIds /\ destroyed[call[c].sid] # << >>
        /\ call[c].ret = FALSE

\* C17: when create_session returns an id, the id is in the registry with
\* the given script_path, is_running false, an empty queue, no process and
\* no exit code, and every session that existed before is as it was.
C17_CreatedSessionIsFresh ==
    [][\A c \in Callers :
          Returns(c, "create_session")
          => LET sid == call'[c].ret IN
               /\ sid \notin _sessions /\ sid \in _sessions'
               /\ script_path'[sid] = history'.given[sid]
               /\ ~is_running'[sid]
               /\ output_queue'[sid] = << >>
               /\ process'[sid] = None
               /\ exit_code'[sid] = None
               /\ \A s \in _sessions : s \in _sessions' /\ Fields(s)' = Fields(s)]_vars

\* A second session has been created, with another path, beside a session
\* that has been started.
C17_Witness ==
    \E c \in Callers :
        /\ call[c].pc = "returned" /\ call[c].op = "create_session"
        /\ call[c].ret = 2 /\ 1 \in _sessions /\ thread[1] # None
        /\ script_path[2] = "b.py" /\ script_path[1] = "a.py"

\* C18: a registered session's is_running flag is true exactly when it has
\* a run that was started and has not yet appended a terminal message.
C18_RunningIffActive ==
    \A s \in _sessions :
        is_running[s] <=> \E r \in RunsOf(s) : Count(appended[r], Terminal) = 0

\* C19: at most one worker thread of a session is alive.
C19_OneWorkerPerSession ==
    \A s \in SessionIds :
        Cardinality({r \in RunsOf(s) : thr[r].pc # "done"}) <= 1

\* C20: last_activity of a session never decreases.
C20_ActivityMonotone ==
    [][\A s \in SessionIds : last_activity'[s] >= last_activity[s]]_vars

\* A keepalive has stamped a session later than its start, which was later
\* than its creation.
C20_Witness ==
    \E s \in _sessions :
        /\ last_event[s].start > 0
        /\ last_event[s].keepalive > last_event[s].start
        /\ last_activity[s] = last_event[s].keepalive

\* C21: update_activity on a session that is in the registry returns True
\* whether the session was never started, is running or has ended, and
\* changes nothing but that session's last_activity: its other fields, the
\* registry, every other session, every child process and every worker are
\* as before.
C21_KeepaliveChangesOnlyStamp ==
    [][\A c \in Callers :
          StepOf(c, "update_activity")
          => /\ (call[c].pc = "idle" /\ call'[c].sid \in _sessions)
                  => (call'[c].pc = "locked" /\ last_activity' = last_activity)
             /\ call[c].pc = "locked" => call'[c] = Returned(c, "update_activity", call[c].sid, TRUE)
             /\ _sessions' = _sessions
             /\ proc' = proc /\ thr' = thr
             /\ \A s \in SessionIds :
                    /\ << script_path[s], process[s], thread[s], output_queue[s],
                          is_running[s], exit_code[s] >>'
                       = << script_path[s], process[s], thread[s], output_queue[s],
                            is_running[s], exit_code[s] >>
                    /\ s # call'[c].sid => last_activity'[s] = last_activity[s]]_vars

\* update_activity has returned True on a session whose run had ended and
\* left messages in the queue.
C21_Witness ==
    \E c \in Callers :
        /\ call[c].pc = "returned" /\ call[c].op = "update_activity"
        /\ call[c].ret = TRUE
        /\ LifecycleState(call[c].sid) = "EXITED"
        /\ output_queue[call[c].sid] # << >>

\* C22: in every reachable state, a session whose process field is None has
\* its is_running flag false.
C22_NoProcessNotRunning ==
    \A s \in SessionIds : process[s] = None => ~is_running[s]

\* A session has been started and its worker has given up without a child:
\* spawning failed, process is still None, and the error message is queued.
C22_Witness ==
    \E s \in _sessions :
        /\ thread[s] # None /\ process[s] = None
        /\ thr[thread[s]].ended = "spawn_error"
        /\ thr[thread[s]].pc = "done"

\* C23: a session's process field is non-None exactly when a start_execution
\* on it has returned True and no destroy_session on it has returned True.
C23_ProcessIffStartedAndKept ==
    \A s \in SessionIds :
        process[s] # None <=> (thread[s] # None /\ destroyed[s] = << >>)

\* Thread t is blocked on the registry lock, which another thread holds.
WaitsForRegistry(t) ==
    /\ held[t].pc \in {"registry_wait", "cleanup_wait", "pop_wait"}
    /\ _sessions_lock \notin {None, t}

\* Thread t is blocked on the lock of session s, which another thread holds.
WaitsForSession(t, s) ==
    /\ \/ held[t].pc \in {"session_wait", "run_wait", "loop_wait", "finally_wait"}
          /\ held[t].sid = s
       \/ held[t].pc = "cleanup_held" /\ held[t].todo # << >> /\ Head(held[t].todo) = s
    /\ lock[s] \notin {None, t}

\* C24: a thread in an operation on session B is never blocked on the lock
\* of another session A, nor on the registry lock while its holder is
\* blocked on the lock of another session A.
C24_NoWaitingAcrossSessions ==
    \A t \in Threads, A \in SessionIds :
        (held[t].op \in LockedOps /\ held[t].sid # A)
        => /\ ~WaitsForSession(t, A)
           /\ ~(WaitsForRegistry(t) /\ WaitsForSession(_sessions_lock, A))

\* The token request thread c's request carries is the one stored in the
\* caller's web session.
TokenMatches(c) == csrf_token # NoToken /\ req[c].token = csrf_token

\* C25: a request whose anti-forgery token does not match the token of the
\* caller's web session is answered without a call of start_execution,
\* send_input, update_activity or destroy_session, and its handler changes
\* no script session.
C25_ForgedRequestRejected ==
    [][\A c \in Callers :
          /\ (call[c].pc = "idle" /\ call'[c] # call[c]
                /\ call'[c].op \in {"start_execution", "send_input", "update_activity",
                                    "destroy_session"})
             => TokenMatches(c)
          /\ (req'[c] # req[c] /\ ~TokenMatches(c)')
             => (_sessions' = _sessions /\ \A s \in SessionIds : Fields(s)' = Fields(s))]_vars

\* The script the request names is not one get_script_path may return: it
\* is missing, not a regular file, not a .py file, or outside the content tree.
PathInvalid(p) ==
    p \notin {q \in RequestPaths : PathExists(q) /\ PathIsFile(q) /\ PathSuffix(q) = ".py"
                                   /\ UnderContent(PathResolve(q))}

\* C26: a stream request whose script path fails validation is answered
\* with the single event 'error'; its handler calls neither create_session
\* nor start_execution and leaves the registry and every session as they were.
C26_InvalidPathCreatesNothing ==
    /\ [](\A c \in Callers :
            (req[c].route = "stream" /\ PathInvalid(req[c].path))
            => /\ req[c].pc = "done" /\ req[c].events = << "error" >>
               /\ call[c] = Idle)
    /\ [][\A c \in Callers :
            (req'[c] # req[c] /\ req'[c].route = "stream" /\ PathInvalid(req'[c].path))
            => /\ _sessions' = _sessions /\ created' = created
               /\ \A s \in SessionIds : Fields(s)' = Fields(s)
               /\ thr' = thr /\ proc' = proc]_vars

\* A stream request for a script outside the content tree has been answered
\* with the error event while a session of an earlier request is registered.
C26_Witness ==
    \E c \in Callers :
        /\ req[c].route = "stream" /\ req[c].path = "../../etc/x.py"
        /\ req[c].events = << "error" >>
        /\ _sessions # {}

OwnExitMessages(n, c) == [i \in 1..n |-> OutputMsg(i)] \o << ExitMsg(c) >>

\* C28: when a run's child has ended on its own with exit status c and the
\* run did not time out, the worker has appended every chunk the child
\* wrote as an 'output' message, in the order written, then one 'exit'
\* message with code c and nothing else, and session.exit_code is c.
C28_OwnExitReported ==
    \A r \in Runs :
        (/\ thr[r].pc = "done"
         /\ proc[r].state = "dead" /\ proc[r].exitstatus # None
         /\ thr[r].ended # "timeout")
        => /\ appended[r] = OwnExitMessages(proc[r].written, proc[r].exitstatus)
           /\ exit_code[thr[r].sess] = proc[r].exitstatus

\* C29: once a run has appended its terminal message it appends no 'output'
\* message, and after a terminal message was appended to a session no
\* worker appends an 'output' message to that session until a later
\* start_execution on it has succeeded.
C29_NoOutputAfterTerminal ==
    [][\A r \in Runs :
          (/\ Len(appended'[r]) > Len(appended[r])
           /\ appended'[r][Len(appended'[r])].type = "output")
          => /\ Count(appended[r], Terminal) = 0
             /\ ~history.terminal[thr[r].sess]]_vars

\* C30: send_input returns True only if, when it writes, the session's run
\* has not ended (no terminal message was appended since the last start)
\* and the child is alive; when it returns True the line is written to the
\* session's process and last_activity is the time of the call.
C30_InputOnlyWhileRunning ==
    [][\A c \in Callers :
          (call[c].pc = "locked" /\ Returns(c, "send_input") /\ call'[c].ret = TRUE)
          => LET s == call[c].sid IN
                /\ ~history.terminal[s]
                /\ ProcessAlive(s)
                /\ proc'[process[s]].input = proc[process[s]].input + 1
                /\ last_activity'[s] = now]_vars

\* C38: a start_execution that returns False because the session is running
\* changes nothing: the queue, exit_code, last_activity, process and thread
\* of the session, every worker and every child are as before.
C38_RefusedStartChangesNothing ==
    [][\A c \in Callers :
          (call[c].pc = "locked" /\ Returns(c, "start_execution") /\ call'[c].ret = FALSE)
          => /\ is_running[call[c].sid]
             /\ \A s \in SessionIds : Fields(s)' = Fields(s)
             /\ _sessions' = _sessions
             /\ thr' = thr /\ proc' = proc]_vars

\* start_execution has returned False on a running session that had a
\* message in its queue.
C38_Witness ==
    \E c \in Callers :
        /\ call[c].pc = "returned" /\ call[c].op = "start_execution"
        /\ call[c].ret = FALSE /\ call[c].sid \in _sessions
        /\ is_running[call[c].sid]
        /\ output_queue[call[c].sid] # << >>

\* C37: when a worker appends its 'exit' message, the code in the message is
\* the value it stores in session.exit_code, and the code is 0 only if the
\* child it closed ended with exit status 0.
C37_ExitCodeIsExitStatus ==
    [][\A r \in Runs :
          (At(r, "eof") /\ thr'[r].pc = "finally")
          => LET s == thr[r].sess
                 m == appended'[r][Len(appended'[r])] IN
              /\ m.type = "exit"
              /\ m.code = exit_code'[s]
              /\ (m.code = 0 => proc[process[s]].exitstatus = 0)]_vars

\* C31: the EOF handler writes session.exit_code only for the session's
\* current run and only as that run's first terminal event (so at most once
\* per run, and never for a run that ended by timeout or error); any other
\* change of exit_code is the reset to None by a successful start_execution.
C31_ExitCodeWrittenOncePerRun ==
    [][\A s \in SessionIds :
          /\ \A r \in RunsOf(s) :
                (At(r, "eof") /\ thr'[r].pc = "finally")
                => (r = thread[s] /\ ~history.terminal[s])
          /\ (exit_code'[s] # exit_code[s])
             => IF exit_code'[s] = None
                THEN \E c \in Callers :
                        /\ Returns(c, "start_execution") /\ call[c].sid = s
                        /\ call'[c].ret = TRUE
                ELSE \E r \in RunsOf(s) : At(r, "eof") /\ thr'[r].pc = "finally"]_vars

\* C34: the finally block of a worker acts on its own run only: the step
\* that terminates a live child changes no child but the worker's own, and
\* the step that clears is_running does not clear it while a later run of
\* the session is before or inside its loop.
C34_CleanupActsOnOwnRun ==
    [][\A r \in Runs :
          /\ (At(r, "finally") /\ thr'[r].pc = "finally_lock")
             => \A q \in Runs \ {r} : proc'[q] = proc[q]
          /\ (At(r, "finally_lock") /\ thr'[r].pc = "done")
             => LET s == thr[r].sess IN
                 (is_running[s] /\ ~is_running'[s])
                 => (thread[s] = r \/ ~InLoop(thread[s]))]_vars

\* C33: a start_execution that succeeds on a session whose previous run has
\* ended returns with the queue empty and exit_code None, and from then on
\* only the run it launched appends to the session's queue.
C33_RestartQueueIsOwn ==
    [][\A s \in SessionIds :
          /\ \A c \in Callers :
                (/\ call[c].pc = "locked" /\ Returns(c, "start_execution")
                 /\ call[c].sid = s /\ call'[c].ret = TRUE
                 /\ PreviousRunEnded(s))
                => (output_queue'[s] = << >> /\ exit_code'[s] = None)
          /\ history.restart[s]
             => \A r \in RunsOf(s) : appended'[r] # appended[r] => r = thread[s]]_vars

\* The resolved path lies inside the content/scripts/ directory.
InsideScripts(q) == q \in {"/content/scripts/a.py", "/content/scripts/notes.txt",
                           "/content/scripts/missing.py"}

\* C32: whenever get_script_path returns a path for the path of a stream
\* request, the path names an existing regular .py file that resolves to a
\* place inside content/scripts/, and every session is created with such a
\* path.
C32_OnlyScriptsUnderScriptsDir ==
    /\ \A c \in Callers :
          (req[c].route = "stream" /\ get_script_path(req[c].path) # NoPath)
          => /\ PathExists(req[c].path) /\ PathIsFile(req[c].path)
             /\ PathSuffix(req[c].path) = ".py"
             /\ get_script_path(req[c].path) = PathResolve(req[c].path)
             /\ InsideScripts(PathResolve(req[c].path))
    /\ \A s \in _sessions : InsideScripts(script_path[s])

\* The stream of request thread c is attached to a session and live.
Streaming(c) ==
    /\ req[c].route = "stream" /\ req[c].sid \in SessionIds
    /\ req[c].pc \in {"check", "get_output", "forward"}

\* The run of session s is over: its worker has finished.
RunOver(s) == thread[s] # None /\ thr[thread[s]].pc = "done"

\* C36: a push stream attached to a session whose run is over eventually
\* ends.
C36_StreamEndsAfterRun ==
    \A c \in Callers :
        (Streaming(c) /\ RunOver(req[c].sid)) ~> (req[c].pc = "done")

\* The thread that holds the lock thread t is blocked on, if t is blocked.
Blocker(t) ==
    IF WaitsForRegistry(t) THEN _sessions_lock
    ELSE IF \E s \in SessionIds : WaitsForSession(t, s)
    THEN lock[CHOOSE s \in SessionIds : WaitsForSession(t, s)]
    ELSE None

RECURSIVE BlockedBy(_, _)
\* The thread reached from t by n steps from a blocked thread to the holder
\* of the lock it waits for.
BlockedBy(t, n) ==
    IF n = 0 THEN t
    ELSE IF BlockedBy(t, n - 1) = None THEN None
    ELSE Blocker(BlockedBy(t, n - 1))

\* C35: no threads wait for each other's locks in a cycle: following, from
\* any thread, the holders of the locks waited for never leads back to it.
C35_NoLockCycle ==
    \A t \in Threads, n \in 1..NumThreads : BlockedBy(t, n) # t

\* A thread waits for the registry lock whose holder, in the sweep's scan,
\* waits for a session lock that a third thread holds, which waits for
\* nothing.
C35_Witness ==
    \E t \in Threads :
        /\ WaitsForRegistry(t)
        /\ BlockedBy(t, 2) \notin {None, t, BlockedBy(t, 1)}
        /\ BlockedBy(t, 3) = None
====
